---------------------------- MODULE Spec2Model ----------------------------
(***************************************************************************)
(* TerraWing: the fleet coordinator (terrawing/core/drone_coordinator.py)  *)
(* and the per-vehicle flight controller (terrawing/core/uav_controller.py)*)
(*                                                                         *)
(* DroneCoordinator holds two insertion-ordered dicts, self.drones and     *)
(* self.missions, and self.mission_counter.  A dict is modelled as the     *)
(* sequence of its values in insertion order, each value carrying its key  *)
(* (drone_id, mission_id).  Every coordinator method is a pure operator    *)
(* from the object's fields and the arguments to the new fields and the    *)
(* returned value; one action per method applies it.                       *)
(*                                                                         *)
(* Numbers.  Python floats are modelled by exact integers:                 *)
(*   latitude / longitude   in units of 2.5e-5 degree                      *)
(*   altitude               in metres                                      *)
(*   separation distances   in millimetres (1 unit of latitude * 111320    *)
(*                          = 2.783 m = 2783 mm)                           *)
(* An Optional argument is <<>> for None and <<v>> for the value v.        *)
(* A list argument is taken by value: the caller does not keep and change  *)
(* the list it passed to assign_mission.  The UAVState fields the          *)
(* controller never writes (velocity, orientation, obstacles_detected)     *)
(* are left out.                                                           *)
(***************************************************************************)
EXTENDS Integers, Sequences, FiniteSets, TLC

VARIABLES
    drones,           \* DroneCoordinator.drones: Seq of DroneInfo, insertion order
    missions,         \* DroneCoordinator.missions: Seq of Mission, insertion order
    mission_counter,  \* DroneCoordinator.mission_counter
    max_fleet_size,   \* DroneCoordinator.max_fleet_size: config 'max_fleet_size'
    now,              \* the value time.time() returns
    last              \* the last call of the coordinator's sequential caller:
                      \* [op, args, ok, val]

VARIABLES
    state,            \* UAVController.state: the UAVState
    pc,               \* where the controller is: "idle" between calls, else the
                      \* block of the running method that executes next
    call,             \* the running or last controller call: [op, arg, pre], pre
                      \* being self.state when it was called
    ret,              \* what the last call returned; "running" until it returns
    trail             \* the values state.flight_status took, one after the other,
                      \* during the running or last call (history)

VARIABLES
    mut,              \* the thread that calls the coordinator's mutating methods:
                      \* [pc, op, args, k, pre], pc "idle" between calls, else the
                      \* statement that executes next, k the loop index, pre the
                      \* coordinator's fields when the method was called
    qry,              \* the thread that calls get_statistics: [pc, active_missions,
                      \* idle_drones, legal, during, result]; legal (history)
                      \* holds the statistics of every state the coordinator was in
                      \* between two mutating calls while the query ran, during
                      \* (history) the mutating methods that ran meanwhile
    thr               \* the threads that call register_drone and create_mission
                      \* at the same time, each [pc, op, args, counter, mission_id,
                      \* ret, created]: counter and mission_id are the method's
                      \* locals, ret the value of the thread's last call, created
                      \* (history) the create_mission calls it has returned from

coord_vars == <<drones, missions, mission_counter, max_fleet_size, now, last>>
uav_vars == <<state, pc, call, ret, trail>>
thread_vars == <<mut, qry, thr>>
vars == <<coord_vars, uav_vars, thread_vars>>

---------------------------------------------------------------------------
(* Bounds of the model *)

\* the configured 'max_fleet_size' of the coordinator that runs missions
SmallFleet == 1

\* the configured 'max_fleet_size' of the coordinator that tracks positions
LargeFleet == 2

\* create_mission is called at most MaxMissions times (fleet of SmallFleet)
MaxMissions == 2

\* create_mission is called at most PairMissions times (fleet of LargeFleet)
PairMissions == 1

\* the longest drone_ids list passed to assign_mission
MaxListLen == 2

\* fleet size and longest drone_ids list of the coordinator whose missions hold
\* three drones, so that a removal leaves two drones in an order
RosterFleet == 3
RosterListLen == 3

\* the clock is read at most at MaxTime + 1 different times
MaxTime == 1

\* the heartbeat clock is read up to time MaxClock, in seconds
MaxClock == 47

\* the longest drone_ids list passed to optimize_coverage
MaxCoverage == 3

\* the threads that call register_drone and create_mission at the same time, and the
\* create_mission calls they make between them
MaxCallers == 2
MaxRaceMissions == 2

\* ids callers use: one more than the fleet can hold
DroneIdInputs(n) == 1 .. (n + 1)

None == <<>>
Some(v) == <<v>>

IDLE == "idle"
MissionTypes == {"survey", "patrol"}

---------------------------------------------------------------------------
(* Python helpers *)

\* x in list
In(x, s) == \E i \in 1 .. Len(s) : s[i] = x

\* list.remove(x): removes the FIRST occurrence of x only
ListRemove(s, x) ==
    LET i == CHOOSE k \in 1 .. Len(s) : s[k] = x /\ \A j \in 1 .. (k - 1) : s[j] # x
    IN  SubSeq(s, 1, i - 1) \o SubSeq(s, i + 1, Len(s))

\* f"{n:04d}": the decimal digits of n, zero-padded to at least 4 digits
RECURSIVE Digits(_)
Digits(n) == IF n < 10 THEN <<n>> ELSE Digits(n \div 10) \o <<n % 10>>

RECURSIVE ZeroPad(_, _)
ZeroPad(d, w) == IF Len(d) >= w THEN d ELSE ZeroPad(<<0>> \o d, w)

\* f"MISSION-{n:04d}" (the constant prefix "MISSION-" is left out)
MissionIdOf(n) == ZeroPad(Digits(n), 4)

\* the keys of self.drones / self.missions
DroneKeys(ds) == {ds[i].drone_id : i \in 1 .. Len(ds)}
MissionKeys(ms) == {ms[i].mission_id : i \in 1 .. Len(ms)}

\* position of a key in the dict's insertion order
DroneIndex(ds, id) == CHOOSE i \in 1 .. Len(ds) : ds[i].drone_id = id
MissionIndex(ms, id) == CHOOSE i \in 1 .. Len(ms) : ms[i].mission_id = id

\* dict[key] = value: replaces the value of an existing key in place, else appends
MissionsSet(ms, m) ==
    IF m.mission_id \in MissionKeys(ms)
    THEN [ms EXCEPT ![MissionIndex(ms, m.mission_id)] = m]
    ELSE Append(ms, m)

\* dict[key] = value for self.drones
DronesSet(ds, d) ==
    IF d.drone_id \in DroneKeys(ds)
    THEN [ds EXCEPT ![DroneIndex(ds, d.drone_id)] = d]
    ELSE Append(ds, d)

\* del dict[key]
DronesDel(ds, id) ==
    LET i == DroneIndex(ds, id)
    IN  SubSeq(ds, 1, i - 1) \o SubSeq(ds, i + 1, Len(ds))

\* what a method leaves behind: the object's fields and the returned value
Result(ds, ms, mc, ok, val) ==
    [drones |-> ds, missions |-> ms, mission_counter |-> mc, ok |-> ok, val |-> val]

Self ==
    [drones |-> drones, missions |-> missions, mission_counter |-> mission_counter,
     max_fleet_size |-> max_fleet_size]

\* a method that returns False / a value without touching the object
Unchanged(self, ok, val) ==
    Result(self.drones, self.missions, self.mission_counter, ok, val)

---------------------------------------------------------------------------
(* DroneCoordinator methods *)

\* DroneInfo(drone_id, position, battery_level=100.0, status="ready", capabilities)
DroneInfo(drone_id, position, capabilities, t) ==
    [drone_id |-> drone_id, position |-> position, battery_level |-> 100,
     status |-> "ready", task |-> IDLE, capabilities |-> capabilities,
     last_update |-> t]

\* Mission(mission_id, mission_type, area_bounds, priority)
Mission(mission_id, mission_type, area_bounds, priority, t) ==
    [mission_id |-> mission_id, mission_type |-> mission_type,
     area_bounds |-> area_bounds, assigned_drones |-> <<>>,
     priority |-> priority, status |-> "pending", created |-> t]

\* register_drone with the capacity test written ">" instead of ">="
register_drone_off_by_one(self, drone_id, position, capabilities, t) ==
    IF drone_id \in DroneKeys(self.drones)
    THEN Unchanged(self, FALSE, None)
    ELSE IF Len(self.drones) > self.max_fleet_size
    THEN Unchanged(self, FALSE, None)
    ELSE Result(Append(self.drones,
                       DroneInfo(drone_id, position,
                                 IF capabilities = None THEN {} ELSE capabilities[1], t)),
                self.missions, self.mission_counter, TRUE, None)

\* register_drone that builds and stores the record before it tests for a
\* duplicate: the duplicate's record replaces the registered one
register_drone_overwrite(self, drone_id, position, capabilities, t) ==
    LET info == DroneInfo(drone_id, position,
                          IF capabilities = None THEN {} ELSE capabilities[1], t)
    IN  IF drone_id \in DroneKeys(self.drones)
        THEN Result([self.drones EXCEPT ![DroneIndex(self.drones, drone_id)] = info],
                    self.missions, self.mission_counter, FALSE, None)
        ELSE IF Len(self.drones) >= self.max_fleet_size
        THEN Unchanged(self, FALSE, None)
        ELSE Result(Append(self.drones, info),
                    self.missions, self.mission_counter, TRUE, None)

\* register_drone that counts a duplicate registration as a heartbeat: it
\* refreshes last_update of the registered record before it returns False
register_drone_heartbeat(self, drone_id, position, capabilities, t) ==
    IF drone_id \in DroneKeys(self.drones)
    THEN Result([self.drones EXCEPT ![DroneIndex(self.drones, drone_id)].last_update = t],
                self.missions, self.mission_counter, FALSE, None)
    ELSE IF Len(self.drones) >= self.max_fleet_size
    THEN Unchanged(self, FALSE, None)
    ELSE Result(Append(self.drones,
                       DroneInfo(drone_id, position,
                                 IF capabilities = None THEN {} ELSE capabilities[1], t)),
                self.missions, self.mission_counter, TRUE, None)

register_drone(self, drone_id, position, capabilities, t) ==
    IF drone_id \in DroneKeys(self.drones)
    THEN Unchanged(self, FALSE, None)
    ELSE IF Len(self.drones) >= self.max_fleet_size
    THEN Unchanged(self, FALSE, None)
    ELSE Result(Append(self.drones,
                       DroneInfo(drone_id, position,
                                 IF capabilities = None THEN {} ELSE capabilities[1], t)),
                self.missions, self.mission_counter, TRUE, None)

\* unregister_drone that puts a mission back to pending when it removes the
\* mission's last drone
unregister_drone_requeues(self, drone_id) ==
    IF drone_id \notin DroneKeys(self.drones)
    THEN Unchanged(self, FALSE, None)
    ELSE Result(DronesDel(self.drones, drone_id),
                [i \in 1 .. Len(self.missions) |->
                    IF In(drone_id, self.missions[i].assigned_drones)
                    THEN [self.missions[i] EXCEPT
                            !.assigned_drones = ListRemove(@, drone_id),
                            !.status = IF ListRemove(self.missions[i].assigned_drones,
                                                     drone_id) = <<>>
                                       THEN "pending" ELSE @]
                    ELSE self.missions[i]],
                self.mission_counter, TRUE, None)

\* unregister_drone that fills the removed drone's place with the last drone of
\* the list
unregister_drone_swap_remove(self, drone_id) ==
    IF drone_id \notin DroneKeys(self.drones)
    THEN Unchanged(self, FALSE, None)
    ELSE Result(DronesDel(self.drones, drone_id),
                [i \in 1 .. Len(self.missions) |->
                    IF In(drone_id, self.missions[i].assigned_drones)
                    THEN [self.missions[i] EXCEPT
                            !.assigned_drones =
                                LET l == @
                                    n == Len(l)
                                    k == CHOOSE j \in 1 .. n :
                                            l[j] = drone_id /\ \A h \in 1 .. j - 1 : l[h] # drone_id
                                IN  [j \in 1 .. n - 1 |-> IF j = k THEN l[n] ELSE l[j]]]
                    ELSE self.missions[i]],
                self.mission_counter, TRUE, None)

unregister_drone(self, drone_id) ==
    IF drone_id \notin DroneKeys(self.drones)
    THEN Unchanged(self, FALSE, None)
    ELSE Result(DronesDel(self.drones, drone_id),
                [i \in 1 .. Len(self.missions) |->
                    IF In(drone_id, self.missions[i].assigned_drones)
                    THEN [self.missions[i] EXCEPT
                            !.assigned_drones = ListRemove(@, drone_id)]
                    ELSE self.missions[i]],
                self.mission_counter, TRUE, None)

\* "if position:" and "if status:" test truthiness, "battery_level is not None"
\* tests presence
update_drone_state(self, drone_id, position, battery_level, status, t) ==
    IF drone_id \notin DroneKeys(self.drones)
    THEN Unchanged(self, FALSE, None)
    ELSE LET i  == DroneIndex(self.drones, drone_id)
             d0 == self.drones[i]
             d1 == IF position # None /\ Len(position[1]) > 0
                   THEN [d0 EXCEPT !.position = position[1]] ELSE d0
             d2 == IF battery_level # None
                   THEN [d1 EXCEPT !.battery_level = battery_level[1]] ELSE d1
             d3 == IF status # None /\ status[1] # ""
                   THEN [d2 EXCEPT !.status = status[1]] ELSE d2
             d4 == [d3 EXCEPT !.last_update = t]
         IN  Result([self.drones EXCEPT ![i] = d4],
                    self.missions, self.mission_counter, TRUE, None)

\* self.drones.get(drone_id)
get_drone_info(self, drone_id) ==
    IF drone_id \in DroneKeys(self.drones)
    THEN Unchanged(self, TRUE, Some(self.drones[DroneIndex(self.drones, drone_id)]))
    ELSE Unchanged(self, TRUE, None)

\* list(self.drones.values())
get_fleet_info(self) == Unchanged(self, TRUE, self.drones)

\* create_mission that formats the id before it increments the counter
create_mission_numbers_first(self, mission_type, area_bounds, priority, t) ==
    LET mission_id == MissionIdOf(self.mission_counter)
        mission    == Mission(mission_id, mission_type, area_bounds, priority, t)
    IN  Result(self.drones, MissionsSet(self.missions, mission),
               self.mission_counter + 1, TRUE, mission_id)

create_mission(self, mission_type, area_bounds, priority, t) ==
    LET counter    == self.mission_counter + 1
        mission_id == MissionIdOf(counter)
        mission    == Mission(mission_id, mission_type, area_bounds, priority, t)
    IN  Result(self.drones, MissionsSet(self.missions, mission), counter,
               TRUE, mission_id)

\* the drones of drone_ids before the first one that is not registered
RECURSIVE ValidPrefix(_, _)
ValidPrefix(ds, drone_ids) ==
    IF drone_ids = <<>> \/ Head(drone_ids) \notin DroneKeys(ds) THEN <<>>
    ELSE <<Head(drone_ids)>> \o ValidPrefix(ds, Tail(drone_ids))

\* assign_mission with the existence test inside the loop that sets the tasks:
\* the drones before an unknown id keep the task they were given
assign_mission_partial(self, mission_id, drone_ids) ==
    IF mission_id \notin MissionKeys(self.missions)
    THEN Unchanged(self, FALSE, None)
    ELSE LET m == MissionIndex(self.missions, mission_id)
             mission == self.missions[m]
             done == ValidPrefix(self.drones, drone_ids)
             ok == Len(done) = Len(drone_ids)
         IN  Result([i \in 1 .. Len(self.drones) |->
                        IF In(self.drones[i].drone_id, done)
                        THEN [self.drones[i] EXCEPT !.task = mission.mission_type]
                        ELSE self.drones[i]],
                    IF ok
                    THEN [self.missions EXCEPT ![m] =
                            [mission EXCEPT !.assigned_drones = drone_ids,
                                            !.status = "active"]]
                    ELSE self.missions,
                    self.mission_counter, ok, None)

assign_mission(self, mission_id, drone_ids) ==
    IF mission_id \notin MissionKeys(self.missions)
    THEN Unchanged(self, FALSE, None)
    ELSE IF \E k \in 1 .. Len(drone_ids) : drone_ids[k] \notin DroneKeys(self.drones)
    THEN Unchanged(self, FALSE, None)
    ELSE LET m == MissionIndex(self.missions, mission_id)
             mission == self.missions[m]
         IN  Result([i \in 1 .. Len(self.drones) |->
                        IF In(self.drones[i].drone_id, drone_ids)
                        THEN [self.drones[i] EXCEPT !.task = mission.mission_type]
                        ELSE self.drones[i]],
                    [self.missions EXCEPT ![m] =
                        [mission EXCEPT !.assigned_drones = drone_ids,
                                        !.status = "active"]],
                    self.mission_counter, TRUE, None)

\* the keys of self.drones, in order, whose drone is ready and idle
RECURSIVE Available(_)
Available(ds) ==
    IF ds = <<>> THEN <<>>
    ELSE (IF Head(ds).status = "ready" /\ Head(ds).task = IDLE
          THEN <<Head(ds).drone_id>> ELSE <<>>) \o Available(Tail(ds))

\* auto_assign_mission whose filter tests the task only, not the status
auto_assign_mission_any_status(self, mission_id) ==
    IF mission_id \notin MissionKeys(self.missions)
    THEN Unchanged(self, FALSE, None)
    ELSE LET idle == {i \in 1 .. Len(self.drones) : self.drones[i].task = IDLE}
         IN  IF idle = {}
             THEN Unchanged(self, FALSE, None)
             ELSE assign_mission(self, mission_id,
                     <<self.drones[CHOOSE i \in idle : \A j \in idle : i <= j].drone_id>>)

auto_assign_mission(self, mission_id) ==
    IF mission_id \notin MissionKeys(self.missions)
    THEN Unchanged(self, FALSE, None)
    ELSE LET available == Available(self.drones)
         IN  IF available = <<>>
             THEN Unchanged(self, FALSE, None)
             ELSE assign_mission(self, mission_id, <<available[1]>>)

\* complete_mission without the "if drone_id in self.drones" test: the lookup
\* of an unregistered drone raises after the status was set
complete_mission_strict(self, mission_id) ==
    IF mission_id \notin MissionKeys(self.missions)
    THEN Unchanged(self, FALSE, None)
    ELSE LET m == MissionIndex(self.missions, mission_id)
             mission == self.missions[m]
             done == ValidPrefix(self.drones, mission.assigned_drones)
         IN  Result([i \in 1 .. Len(self.drones) |->
                        IF In(self.drones[i].drone_id, done)
                        THEN [self.drones[i] EXCEPT !.task = IDLE]
                        ELSE self.drones[i]],
                    [self.missions EXCEPT ![m] = [mission EXCEPT !.status = "completed"]],
                    self.mission_counter,
                    Len(done) = Len(mission.assigned_drones), None)

complete_mission(self, mission_id) ==
    IF mission_id \notin MissionKeys(self.missions)
    THEN Unchanged(self, FALSE, None)
    ELSE LET m == MissionIndex(self.missions, mission_id)
             mission == self.missions[m]
         IN  Result([i \in 1 .. Len(self.drones) |->
                        IF In(self.drones[i].drone_id, mission.assigned_drones)
                        THEN [self.drones[i] EXCEPT !.task = IDLE]
                        ELSE self.drones[i]],
                    [self.missions EXCEPT ![m] = [mission EXCEPT !.status = "completed"]],
                    self.mission_counter, TRUE, None)

---------------------------------------------------------------------------
(* UAVController.  A method runs as a sequence of blocks: a block is the   *)
(* assignments between two calls (of the logger, of another method), which *)
(* are the only points where the single-threaded controller can be         *)
(* observed.  A method that fails or needs one block only is one step.     *)

\* FlightMode
FM_IDLE == "idle"
FM_MANUAL == "manual"
FM_AUTO == "auto"
FM_WAYPOINT == "waypoint"
FM_RTL == "return_to_launch"
FM_LANDING == "landing"
FlightMode == {FM_IDLE, FM_MANUAL, FM_AUTO, FM_WAYPOINT, FM_RTL, FM_LANDING}

\* FlightStatus
GROUNDED == "grounded"
TAKING_OFF == "taking_off"
FLYING == "flying"
HOVERING == "hovering"
LANDING == "landing"
EMERGENCY == "emergency"
FlightStatus == {GROUNDED, TAKING_OFF, FLYING, HOVERING, LANDING, EMERGENCY}

\* UAVController.__init__: the safety parameters' defaults
min_altitude == 5
max_altitude == 120
safe_battery_threshold == 20
emergency_land_battery == 10

\* UAVState()
UAVState ==
    [position |-> <<0, 0, 0>>, battery_level |-> 100, flight_mode |-> FM_IDLE,
     flight_status |-> GROUNDED, is_armed |-> FALSE]

Max(a, b) == IF a >= b THEN a ELSE b
Min(a, b) == IF a <= b THEN a ELSE b

\* a block's outcome: the new state, where the method continues ("idle": it has
\* returned) and the value returned ("running": none yet)
Outcome(st, next, r) == [state |-> st, pc |-> next, ret |-> r]

\* the value a block leaves in flight_status, if it changes it
Assigned(old, new) == IF new.flight_status # old.flight_status THEN <<new.flight_status>> ELSE <<>>

\* arm with the "already armed" test before the battery test
arm_armed_first(st) ==
    IF st.is_armed
    THEN Outcome(st, "idle", "True")
    ELSE IF st.battery_level < safe_battery_threshold
    THEN Outcome(st, "idle", "False")
    ELSE Outcome([st EXCEPT !.is_armed = TRUE], "idle", "True")

arm(st) ==
    IF st.battery_level < safe_battery_threshold
    THEN Outcome(st, "idle", "False")
    ELSE IF st.is_armed
    THEN Outcome(st, "idle", "True")
    ELSE Outcome([st EXCEPT !.is_armed = TRUE], "idle", "True")

\* disarm without the flight_status test
disarm_unguarded(st) ==
    Outcome([st EXCEPT !.is_armed = FALSE, !.flight_mode = FM_IDLE], "idle", "True")

disarm(st) ==
    IF st.flight_status \notin {GROUNDED, LANDING}
    THEN Outcome(st, "idle", "False")
    ELSE Outcome([st EXCEPT !.is_armed = FALSE, !.flight_mode = FM_IDLE],
                 "idle", "True")

\* takeoff without the armed test
takeoff_unarmed(st, target_altitude) ==
    IF target_altitude < min_altitude \/ target_altitude > max_altitude
    THEN Outcome(st, "idle", "False")
    ELSE Outcome([st EXCEPT !.flight_status = TAKING_OFF, !.flight_mode = FM_AUTO],
                 "takeoff_reach", "running")

\* takeoff, lines 123-133: the checks, then TAKING_OFF and AUTO
takeoff(st, target_altitude) ==
    IF ~st.is_armed
    THEN Outcome(st, "idle", "False")
    ELSE IF target_altitude < min_altitude \/ target_altitude > max_altitude
    THEN Outcome(st, "idle", "False")
    ELSE Outcome([st EXCEPT !.flight_status = TAKING_OFF, !.flight_mode = FM_AUTO],
                 "takeoff_reach", "running")

\* takeoff that reaches the altitude and leaves flight_status at TAKING_OFF
takeoff_reach_keeps_status(st, target_altitude) ==
    Outcome([st EXCEPT !.position = <<st.position[1], st.position[2], target_altitude>>],
            "idle", "True")

\* takeoff, lines 135-139: the altitude is reached
takeoff_reach(st, target_altitude) ==
    Outcome([st EXCEPT !.position = <<st.position[1], st.position[2], target_altitude>>,
                       !.flight_status = HOVERING],
            "idle", "True")

\* land, lines 148-153
land(st) ==
    IF st.flight_status = GROUNDED
    THEN Outcome(st, "idle", "True")
    ELSE Outcome([st EXCEPT !.flight_status = LANDING], "land_touchdown", "running")

\* land that leaves the altitude as it was
land_touchdown_keeps_altitude(st) ==
    Outcome([st EXCEPT !.flight_status = GROUNDED, !.flight_mode = FM_IDLE],
            "idle", "True")

\* land, lines 155-160
land_touchdown(st) ==
    Outcome([st EXCEPT !.position = <<st.position[1], st.position[2], 0>>,
                       !.flight_status = GROUNDED,
                       !.flight_mode = FM_IDLE],
            "idle", "True")

\* set_flight_mode that starts a landing when the mode is LANDING
set_flight_mode_begins_landing(st, mode) ==
    IF ~st.is_armed /\ mode # FM_IDLE
    THEN Outcome(st, "idle", "False")
    ELSE Outcome([st EXCEPT !.flight_mode = mode,
                            !.flight_status = IF mode = FM_LANDING THEN LANDING ELSE @],
                 "idle", "True")

\* set_flight_mode without the armed test
set_flight_mode_unguarded(st, mode) ==
    Outcome([st EXCEPT !.flight_mode = mode], "idle", "True")

set_flight_mode(st, mode) ==
    IF ~st.is_armed /\ mode # FM_IDLE
    THEN Outcome(st, "idle", "False")
    ELSE Outcome([st EXCEPT !.flight_mode = mode], "idle", "True")

\* navigate_to that tests the altitude against min_altitude only
navigate_to_no_ceiling(st, lat, lon, alt) ==
    IF st.flight_status \notin {FLYING, HOVERING}
    THEN Outcome(st, "idle", "False")
    ELSE IF alt < min_altitude
    THEN Outcome(st, "idle", "False")
    ELSE Outcome([st EXCEPT !.position = <<lat, lon, alt>>, !.flight_status = FLYING],
                 "idle", "True")

navigate_to(st, lat, lon, alt) ==
    IF st.flight_status \notin {FLYING, HOVERING}
    THEN Outcome(st, "idle", "False")
    ELSE IF alt < min_altitude \/ alt > max_altitude
    THEN Outcome(st, "idle", "False")
    ELSE Outcome([st EXCEPT !.position = <<lat, lon, alt>>, !.flight_status = FLYING],
                 "idle", "True")

\* return_to_launch without the "already grounded" test
return_to_launch_unguarded(st) ==
    Outcome([st EXCEPT !.flight_mode = FM_RTL], "land", "running")

\* return_to_launch, lines 214-218; line 221 calls land()
return_to_launch(st) ==
    IF st.flight_status = GROUNDED
    THEN Outcome(st, "idle", "True")
    ELSE Outcome([st EXCEPT !.flight_mode = FM_RTL], "land", "running")

\* emergency_stop that does nothing on the ground
emergency_stop_when_airborne(st) ==
    IF st.flight_status = GROUNDED
    THEN Outcome(st, "idle", "True")
    ELSE Outcome([st EXCEPT !.flight_status = EMERGENCY, !.flight_mode = FM_RTL],
                 "land", "running")

\* emergency_stop that leaves the flight mode alone
emergency_stop_keeps_mode(st) ==
    Outcome([st EXCEPT !.flight_status = EMERGENCY], "land", "running")

\* emergency_stop, lines 230-232; line 233 calls land()
emergency_stop(st) ==
    Outcome([st EXCEPT !.flight_status = EMERGENCY, !.flight_mode = FM_RTL],
            "land", "running")

\* update_battery with the critical test written "<=" instead of "<"
update_battery_at_threshold(st, level) ==
    LET st1 == [st EXCEPT !.battery_level = Max(0, Min(100, level))]
    IN  IF st1.battery_level <= emergency_land_battery
        THEN IF st1.flight_status # GROUNDED
             THEN Outcome(st1, "emergency_stop", "running")
             ELSE Outcome(st1, "idle", "None")
        ELSE Outcome(st1, "idle", "None")

\* update_battery that calls land() where it should call emergency_stop()
update_battery_lands(st, level) ==
    LET st1 == [st EXCEPT !.battery_level = Max(0, Min(100, level))]
    IN  IF st1.battery_level < emergency_land_battery
        THEN IF st1.flight_status # GROUNDED
             THEN Outcome(st1, "land", "running")
             ELSE Outcome(st1, "idle", "None")
        ELSE Outcome(st1, "idle", "None")

\* update_battery, lines 242-249; line 247 calls emergency_stop()
update_battery(st, level) ==
    LET st1 == [st EXCEPT !.battery_level = Max(0, Min(100, level))]
    IN  IF st1.battery_level < emergency_land_battery
        THEN IF st1.flight_status # GROUNDED
             THEN Outcome(st1, "emergency_stop", "running")
             ELSE Outcome(st1, "idle", "None")
        ELSE Outcome(st1, "idle", "None")

---------------------------------------------------------------------------
(* The coordinator as a state machine: one action per method call *)

\* applies a method's result and records the call
Apply(op, args, r) ==
    /\ drones' = r.drones
    /\ missions' = r.missions
    /\ mission_counter' = r.mission_counter
    /\ last' = [op |-> op, args |-> args, ok |-> r.ok, val |-> r.val]
    /\ UNCHANGED <<max_fleet_size, now, uav_vars, thread_vars>>

RegisterDrone(drone_id, position, capabilities) ==
    Apply("register_drone", <<drone_id, position>>,
          register_drone(Self, drone_id, position, capabilities, now))

UnregisterDrone(drone_id) ==
    Apply("unregister_drone", <<drone_id>>, unregister_drone(Self, drone_id))

UpdateDroneState(drone_id, position, battery_level, status) ==
    Apply("update_drone_state", <<drone_id, position, battery_level, status>>,
          update_drone_state(Self, drone_id, position, battery_level, status, now))

CreateMission(mission_type, area_bounds, priority) ==
    Apply("create_mission", <<mission_type>>,
          create_mission(Self, mission_type, area_bounds, priority, now))

AssignMission(mission_id, drone_ids) ==
    Apply("assign_mission", <<mission_id, drone_ids>>,
          assign_mission(Self, mission_id, drone_ids))

AutoAssignMission(mission_id) ==
    Apply("auto_assign_mission", <<mission_id>>, auto_assign_mission(Self, mission_id))

CompleteMission(mission_id) ==
    Apply("complete_mission", <<mission_id>>, complete_mission(Self, mission_id))

\* time.time() has advanced between two calls
Tick ==
    /\ now < MaxTime
    /\ now' = now + 1
    /\ last' = [op |-> "tick", args |-> <<>>, ok |-> TRUE, val |-> None]
    /\ UNCHANGED <<drones, missions, mission_counter, max_fleet_size, uav_vars, thread_vars>>

\* time.time() has advanced by d seconds between two calls
Elapse(d) ==
    /\ now + d <= MaxClock
    /\ now' = now + d
    /\ last' = [op |-> "elapse", args |-> <<d>>, ok |-> TRUE, val |-> None]
    /\ UNCHANGED <<drones, missions, mission_counter, max_fleet_size, uav_vars, thread_vars>>

\* DroneCoordinator.__init__: config 'heartbeat_timeout', default 30.0 s
heartbeat_timeout == 30

\* the loop of check_inactive_drones over self.drones.items()
RECURSIVE Inactive(_, _)
Inactive(ds, current_time) ==
    IF ds = <<>> THEN <<>>
    ELSE (IF current_time - Head(ds).last_update > heartbeat_timeout
          THEN <<Head(ds).drone_id>> ELSE <<>>) \o Inactive(Tail(ds), current_time)

\* check_inactive_drones with the test written ">=" instead of ">": in whole
\* seconds, what ">" lists one second later
check_inactive_drones_at_timeout(self, current_time) ==
    Unchanged(self, TRUE, Inactive(self.drones, current_time + 1))

check_inactive_drones(self, current_time) ==
    Unchanged(self, TRUE, Inactive(self.drones, current_time))

CheckInactiveDrones ==
    Apply("check_inactive_drones", <<>>, check_inactive_drones(Self, now))

GetDroneInfo(drone_id) ==
    Apply("get_drone_info", <<drone_id>>, get_drone_info(Self, drone_id))

GetFleetInfo == Apply("get_fleet_info", <<>>, get_fleet_info(Self))

---------------------------------------------------------------------------
(* Coverage.  A float that results from a division is the exact fraction   *)
(* [num, den], den > 0, not reduced; rounding is left out.                 *)

Frac(n, d) == [num |-> n, den |-> d]
FracAdd(a, b) == Frac(a.num * b.den + b.num * a.den, a.den * b.den)
FracTimes(k, a) == Frac(k * a.num, a.den)
FracEq(a, b) == a.num * b.den = b.num * a.den
FracLess(a, b) == a.num * b.den < b.num * a.den

\* positions[drone_id] = (lat, lon): replaces the value of an existing key in
\* place, else appends
PositionsSet(positions, p) ==
    IF \E k \in 1 .. Len(positions) : positions[k].drone_id = p.drone_id
    THEN [positions EXCEPT
             ![CHOOSE k \in 1 .. Len(positions) : positions[k].drone_id = p.drone_id] = p]
    ELSE Append(positions, p)

\* the loop of optimize_coverage, lines 396-399, for enumerate's i = from .. n - 1
\* with lat = min_lat + (i + offset) * lat_step
RECURSIVE CoverageLoop(_, _, _, _, _, _)
CoverageLoop(positions, drone_ids, from, offset, area_bounds, lat_step) ==
    IF from >= Len(drone_ids) THEN positions
    ELSE LET lat == FracAdd(Frac(area_bounds[1], 1), FracTimes(from + offset, lat_step))
             lon == Frac(area_bounds[3] + area_bounds[4], 2)
         IN  CoverageLoop(PositionsSet(positions, [drone_id |-> drone_ids[from + 1],
                                                   lat |-> lat, lon |-> lon]),
                          drone_ids, from + 1, offset, area_bounds, lat_step)

\* optimize_coverage with lat = min_lat + i * lat_step: the first drone is put on
\* the boundary
optimize_coverage_from_zero(self, area_bounds, drone_ids) ==
    LET num_drones == Len(drone_ids)
    IN  IF num_drones = 0 THEN Unchanged(self, TRUE, <<>>)
        ELSE LET lat_step == Frac(area_bounds[2] - area_bounds[1], num_drones + 1)
             IN  Unchanged(self, TRUE,
                           CoverageLoop(<<>>, drone_ids, 0, 0, area_bounds, lat_step))

optimize_coverage(self, area_bounds, drone_ids) ==
    LET num_drones == Len(drone_ids)
    IN  IF num_drones = 0 THEN Unchanged(self, TRUE, <<>>)
        ELSE LET lat_step == Frac(area_bounds[2] - area_bounds[1], num_drones + 1)
             IN  Unchanged(self, TRUE,
                           CoverageLoop(<<>>, drone_ids, 0, 1, area_bounds, lat_step))

OptimizeCoverage(area_bounds, drone_ids) ==
    Apply("optimize_coverage", <<area_bounds, drone_ids>>,
          optimize_coverage(Self, area_bounds, drone_ids))

---------------------------------------------------------------------------
(* Collision risk *)

\* DroneCoordinator.__init__: config 'min_separation', default 10.0 m, in mm
min_drone_separation == 10000

\* metres per degree, here millimetres per 2.5e-5 degree: 111320 * 2.5e-5 * 1000
MmPerUnit == 2783

\* millimetres per metre of altitude
MmPerMetre == 1000

\* x ** 0.5, rounded down to the millimetre
RECURSIVE SqrtBetween(_, _, _)
SqrtBetween(x, lo, hi) ==
    IF lo >= hi THEN lo
    ELSE LET mid == (lo + hi + 1) \div 2
         IN  IF mid * mid <= x THEN SqrtBetween(x, mid, hi)
                               ELSE SqrtBetween(x, lo, mid - 1)

Sqrt(x) == SqrtBetween(x, 0, 46340)

\* Python truthiness of an Optional[float]: None and 0.0 are false
Truthy(x) == x # None /\ x[1] # 0

calculate_separation(self, drone1_id, drone2_id) ==
    IF drone1_id \notin DroneKeys(self.drones) \/ drone2_id \notin DroneKeys(self.drones)
    THEN None
    ELSE LET pos1 == self.drones[DroneIndex(self.drones, drone1_id)].position
             pos2 == self.drones[DroneIndex(self.drones, drone2_id)].position
             dx == (pos1[1] - pos2[1]) * MmPerUnit
             dy == (pos1[2] - pos2[2]) * MmPerUnit
             dz == (pos1[3] - pos2[3]) * MmPerMetre
         IN  Some(Sqrt(dx * dx + dy * dy + dz * dz))

\* the inner loop of check_collision_risk: id1 against the ids after it
RECURSIVE RisksOf(_, _, _)
RisksOf(self, id1, rest) ==
    IF rest = <<>> THEN <<>>
    ELSE LET id2 == Head(rest)
             distance == calculate_separation(self, id1, id2)
         IN  (IF Truthy(distance) /\ distance[1] < min_drone_separation
              THEN <<(<<id1, id2, distance[1]>>)>> ELSE <<>>)
             \o RisksOf(self, id1, Tail(rest))

\* the outer loop of check_collision_risk over drone_ids[i:]
RECURSIVE RisksFrom(_, _)
RisksFrom(self, drone_ids) ==
    IF drone_ids = <<>> THEN <<>>
    ELSE RisksOf(self, Head(drone_ids), Tail(drone_ids))
         \o RisksFrom(self, Tail(drone_ids))

\* check_collision_risk with the inner loop over every other drone, those before
\* id1 included: it walks the pairs in both orders
check_collision_risk_both_orders(self) ==
    LET drone_ids == [i \in 1 .. Len(self.drones) |-> self.drones[i].drone_id]
        reversed == [i \in 1 .. Len(drone_ids) |-> drone_ids[Len(drone_ids) + 1 - i]]
    IN  Unchanged(self, TRUE, RisksFrom(self, drone_ids) \o RisksFrom(self, reversed))

check_collision_risk(self) ==
    LET drone_ids == [i \in 1 .. Len(self.drones) |-> self.drones[i].drone_id]
    IN  Unchanged(self, TRUE, RisksFrom(self, drone_ids))

CheckCollisionRisk == Apply("check_collision_risk", <<>>, check_collision_risk(Self))

---------------------------------------------------------------------------
(* Threads.  The coordinator has no lock: when two threads call it, the    *)
(* statements of their calls interleave.  One thread calls the mutating    *)
(* methods, assign_mission and complete_mission running one statement that *)
(* writes self.drones or self.missions at a time; another thread calls     *)
(* get_statistics, which reads self.missions (line 426), then self.drones  *)
(* (line 427), then builds its result (lines 429-437).  A method's last    *)
(* write and its return are one step.                                      *)

\* get_statistics, line 426
ActiveMissions(ms) == Cardinality({i \in 1 .. Len(ms) : ms[i].status = "active"})

\* get_statistics, line 427
IdleDrones(ds) == Cardinality({i \in 1 .. Len(ds) : ds[i].task = IDLE})

\* get_statistics, lines 429-437 ('coordination_mode', a constant, is left out)
StatisticsOf(self, active_missions, idle_drones) ==
    [total_drones |-> Len(self.drones),
     idle_drones |-> idle_drones,
     active_drones |-> Len(self.drones) - idle_drones,
     total_missions |-> Len(self.missions),
     active_missions |-> active_missions,
     collision_risks |-> Len(check_collision_risk(self).val)]

\* get_statistics that counts as active every mission that holds drones
get_statistics_counts_assigned(self) ==
    StatisticsOf(self,
                 Cardinality({i \in 1 .. Len(self.missions) :
                                 self.missions[i].assigned_drones # <<>>}),
                 IdleDrones(self.drones))

\* get_statistics run without interruption
get_statistics(self) ==
    StatisticsOf(self, ActiveMissions(self.missions), IdleDrones(self.drones))

\* get_statistics called by the coordinator's sequential caller
QueryStatistics == Apply("get_statistics", <<>>, Unchanged(Self, TRUE, get_statistics(Self)))

\* assign_mission, line 268
assign_mission_drones(self, mission_id, drone_ids) ==
    Result(self.drones,
           [self.missions EXCEPT
               ![MissionIndex(self.missions, mission_id)].assigned_drones = drone_ids],
           self.mission_counter, TRUE, None)

\* assign_mission, line 269
assign_mission_status(self, mission_id) ==
    Result(self.drones,
           [self.missions EXCEPT ![MissionIndex(self.missions, mission_id)].status = "active"],
           self.mission_counter, TRUE, None)

\* assign_mission, line 273, for one drone_id
assign_mission_task(self, mission_id, drone_id) ==
    Result([self.drones EXCEPT ![DroneIndex(self.drones, drone_id)].task =
               self.missions[MissionIndex(self.missions, mission_id)].mission_type],
           self.missions, self.mission_counter, TRUE, None)

\* complete_mission, line 321
complete_mission_status(self, mission_id) ==
    Result(self.drones,
           [self.missions EXCEPT
               ![MissionIndex(self.missions, mission_id)].status = "completed"],
           self.mission_counter, TRUE, None)

\* complete_mission, lines 325-326, for one drone_id
complete_mission_task(self, drone_id) ==
    IF drone_id \in DroneKeys(self.drones)
    THEN Result([self.drones EXCEPT ![DroneIndex(self.drones, drone_id)].task = IDLE],
                self.missions, self.mission_counter, TRUE, None)
    ELSE Unchanged(self, TRUE, None)

\* the mutating thread between two calls
MutIdle == [pc |-> "idle", op |-> "none", args |-> <<>>, k |-> 0, pre |-> None]

\* the coordinator's fields as the last mutating call that returned left them
Committed == IF mut.pc = "idle" THEN Self ELSE mut.pre

\* the mutating method that is running, if one is
Running == IF mut.pc = "idle" THEN {} ELSE {mut.op}

\* a call of op has returned and left the fields of r: a query that is running
\* may report them
Observe(q, op, r) ==
    IF q.pc = "idle" THEN q
    ELSE [q EXCEPT !.legal = @ \cup {get_statistics(r)}, !.during = @ \cup {op}]

\* the statement that ends a mutating call
Commit(op, r) ==
    /\ drones' = r.drones
    /\ missions' = r.missions
    /\ mission_counter' = r.mission_counter
    /\ mut' = MutIdle
    /\ qry' = Observe(qry, op, r)
    /\ UNCHANGED <<last, max_fleet_size, now, uav_vars, thr>>

\* a statement after which the mutating call goes on at statement 'at'
Proceed(r, at, k) ==
    /\ drones' = r.drones
    /\ missions' = r.missions
    /\ mission_counter' = r.mission_counter
    /\ mut' = [mut EXCEPT !.pc = at, !.k = k]
    /\ UNCHANGED <<last, qry, max_fleet_size, now, uav_vars, thr>>

\* the tests of a mutating method have passed: its writes follow
Enter(op, args, at) ==
    /\ mut' = [pc |-> at, op |-> op, args |-> args, k |-> 1, pre |-> Self]
    /\ UNCHANGED <<coord_vars, qry, uav_vars, thr>>

ThreadRegisterDrone(drone_id, position) ==
    /\ mut.pc = "idle"
    /\ Commit("register_drone", register_drone(Self, drone_id, position, None, now))

ThreadCreateMission(mission_type, area_bounds, priority) ==
    /\ mut.pc = "idle"
    /\ Commit("create_mission",
              create_mission(Self, mission_type, area_bounds, priority, now))

\* assign_mission, lines 256-266
ThreadAssignMission(mission_id, drone_ids) ==
    /\ mut.pc = "idle"
    /\ IF \/ mission_id \notin MissionKeys(missions)
          \/ \E k \in 1 .. Len(drone_ids) : drone_ids[k] \notin DroneKeys(drones)
       THEN Commit("assign_mission", Unchanged(Self, FALSE, None))
       ELSE Enter("assign_mission", <<mission_id, drone_ids>>, "assign_drones")

AssignDrones ==
    /\ mut.pc = "assign_drones"
    /\ Proceed(assign_mission_drones(Self, mut.args[1], mut.args[2]), "assign_status", 1)

AssignStatus ==
    /\ mut.pc = "assign_status"
    /\ IF mut.args[2] = <<>>
       THEN Commit(mut.op, assign_mission_status(Self, mut.args[1]))
       ELSE Proceed(assign_mission_status(Self, mut.args[1]), "assign_task", 1)

AssignTask ==
    /\ mut.pc = "assign_task"
    /\ LET r == assign_mission_task(Self, mut.args[1], mut.args[2][mut.k])
       IN  IF mut.k = Len(mut.args[2])
           THEN Commit(mut.op, r)
           ELSE Proceed(r, "assign_task", mut.k + 1)

\* complete_mission, lines 317-318
ThreadCompleteMission(mission_id) ==
    /\ mut.pc = "idle"
    /\ IF mission_id \notin MissionKeys(missions)
       THEN Commit("complete_mission", Unchanged(Self, FALSE, None))
       ELSE Enter("complete_mission", <<mission_id>>, "complete_status")

CompleteStatus ==
    /\ mut.pc = "complete_status"
    /\ IF missions[MissionIndex(missions, mut.args[1])].assigned_drones = <<>>
       THEN Commit(mut.op, complete_mission_status(Self, mut.args[1]))
       ELSE Proceed(complete_mission_status(Self, mut.args[1]), "complete_task", 1)

CompleteTask ==
    /\ mut.pc = "complete_task"
    /\ LET assigned_drones == missions[MissionIndex(missions, mut.args[1])].assigned_drones
           r == complete_mission_task(Self, assigned_drones[mut.k])
       IN  IF mut.k = Len(assigned_drones)
           THEN Commit(mut.op, r)
           ELSE Proceed(r, "complete_task", mut.k + 1)

\* get_statistics is called and runs line 426
GetStatistics ==
    /\ qry.pc = "idle"
    /\ qry' = [pc |-> "stats_drones", active_missions |-> ActiveMissions(missions),
               idle_drones |-> 0, legal |-> {get_statistics(Committed)},
               during |-> Running, result |-> None]
    /\ UNCHANGED <<coord_vars, uav_vars, mut, thr>>

\* get_statistics, line 427
StatsDrones ==
    /\ qry.pc = "stats_drones"
    /\ qry' = [qry EXCEPT !.pc = "stats_return", !.idle_drones = IdleDrones(drones)]
    /\ UNCHANGED <<coord_vars, uav_vars, mut, thr>>

\* get_statistics, lines 429-437
StatsReturn ==
    /\ qry.pc = "stats_return"
    /\ qry' = [pc |-> "idle", active_missions |-> 0, idle_drones |-> 0,
               legal |-> qry.legal, during |-> qry.during \cup Running,
               result |-> Some(StatisticsOf(Self, qry.active_missions, qry.idle_drones))]
    /\ UNCHANGED <<coord_vars, uav_vars, mut, thr>>

---------------------------------------------------------------------------
(* Concurrent callers.  Several threads call register_drone and            *)
(* create_mission of the same coordinator; the methods take no lock, so a  *)
(* thread can be preempted between any two reads or writes of self.drones, *)
(* self.missions and self.mission_counter.  "self.mission_counter += 1" is *)
(* a read, then a write; the f-string at line 231 reads the counter again. *)

Callers == 1 .. MaxCallers

\* a thread between two calls, before its first call
CallerIdle ==
    [pc |-> "idle", op |-> "none", args |-> <<>>, counter |-> 0, mission_id |-> None,
     ret |-> None, created |-> 0]

\* one step of thread t, which leaves the fields r and the thread as c
CallerStep(t, r, c) ==
    /\ drones' = r.drones
    /\ missions' = r.missions
    /\ mission_counter' = r.mission_counter
    /\ thr' = [thr EXCEPT ![t] = c]
    /\ UNCHANGED <<last, max_fleet_size, now, uav_vars, mut, qry>>

\* thread t returns val from its call
CallerReturns(t, val) == [thr[t] EXCEPT !.pc = "idle", !.ret = Some(val)]

\* register_drone, lines 125-127: the call and the test for a duplicate
RaceRegisterDrone(t, drone_id, position) ==
    /\ thr[t].pc = "idle"
    /\ LET c == [thr[t] EXCEPT !.op = "register_drone", !.args = <<drone_id, position>>]
       IN  CallerStep(t, Unchanged(Self, TRUE, None),
                      IF drone_id \in DroneKeys(drones)
                      THEN [c EXCEPT !.ret = Some(FALSE)]
                      ELSE [c EXCEPT !.pc = "register_capacity"])

\* register_drone, lines 129-131: the capacity test
RaceRegisterCapacity(t) ==
    /\ thr[t].pc = "register_capacity"
    /\ CallerStep(t, Unchanged(Self, TRUE, None),
                  IF Len(drones) >= max_fleet_size
                  THEN CallerReturns(t, FALSE)
                  ELSE [thr[t] EXCEPT !.pc = "register_insert"])

\* register_drone, lines 133-143: the record is built and stored
RaceRegisterInsert(t) ==
    /\ thr[t].pc = "register_insert"
    /\ CallerStep(t,
                  Result(DronesSet(drones, DroneInfo(thr[t].args[1], thr[t].args[2], {}, now)),
                         missions, mission_counter, TRUE, None),
                  CallerReturns(t, TRUE))

\* the create_mission calls threads 1 .. n have returned from
RECURSIVE Created(_)
Created(n) == IF n = 0 THEN 0 ELSE thr[n].created + Created(n - 1)

\* the create_mission calls made so far, returned or not
CreateCalls ==
    Cardinality({t \in Callers : thr[t].op = "create_mission" /\ thr[t].pc # "idle"})
    + Created(MaxCallers)

\* create_mission, line 230: the call and the read of self.mission_counter
RaceCreateMission(t, mission_type, area_bounds, priority) ==
    /\ thr[t].pc = "idle"
    /\ CallerStep(t, Unchanged(Self, TRUE, None),
                  [thr[t] EXCEPT !.pc = "create_store", !.op = "create_mission",
                                 !.args = <<mission_type, area_bounds, priority>>,
                                 !.counter = mission_counter])

\* create_mission, line 230: the write of self.mission_counter
RaceCreateStore(t) ==
    /\ thr[t].pc = "create_store"
    /\ CallerStep(t, Result(drones, missions, thr[t].counter + 1, TRUE, None),
                  [thr[t] EXCEPT !.pc = "create_format"])

\* create_mission, line 231: the id is formatted from self.mission_counter
RaceCreateFormat(t) ==
    /\ thr[t].pc = "create_format"
    /\ CallerStep(t, Unchanged(Self, TRUE, None),
                  [thr[t] EXCEPT !.pc = "create_insert",
                                 !.mission_id = Some(MissionIdOf(mission_counter))])

\* create_mission, lines 233-243: the mission is built, stored and returned
RaceCreateInsert(t) ==
    /\ thr[t].pc = "create_insert"
    /\ LET mission == Mission(thr[t].mission_id[1], thr[t].args[1], thr[t].args[2],
                              thr[t].args[3], now)
       IN  CallerStep(t, Result(drones, MissionsSet(missions, mission), mission_counter,
                                TRUE, None),
                      [CallerReturns(t, mission.mission_id) EXCEPT
                          !.mission_id = None, !.created = @ + 1])

---------------------------------------------------------------------------
(* The controller as a state machine *)

\* update_battery returns None, whatever the emergency_stop it calls returns
Returned(op, r) == IF op = "update_battery" THEN "None" ELSE r

\* runs one block
Run(c, history, o) ==
    /\ state' = o.state
    /\ pc' = o.pc
    /\ call' = c
    /\ ret' = IF o.pc = "idle" THEN Returned(c.op, o.ret) ELSE "running"
    /\ trail' = history \o Assigned(state, o.state)
    /\ UNCHANGED <<coord_vars, thread_vars>>

\* a call: the method's first block
Call(op, arg, o) ==
    /\ pc = "idle"
    /\ Run([op |-> op, arg |-> arg, pre |-> state], <<>>, o)

\* the running method's next block
Continue(at, o) ==
    /\ pc = at
    /\ Run(call, trail, o)

Arm == Call("arm", <<>>, arm(state))
Disarm == Call("disarm", <<>>, disarm(state))
Takeoff(target_altitude) ==
    Call("takeoff", <<target_altitude>>, takeoff(state, target_altitude))
Land == Call("land", <<>>, land(state))
SetFlightMode(mode) == Call("set_flight_mode", <<mode>>, set_flight_mode(state, mode))
NavigateTo(lat, lon, alt) ==
    Call("navigate_to", <<lat, lon, alt>>, navigate_to(state, lat, lon, alt))
ReturnToLaunch == Call("return_to_launch", <<>>, return_to_launch(state))
EmergencyStop == Call("emergency_stop", <<>>, emergency_stop(state))
UpdateBattery(level) == Call("update_battery", <<level>>, update_battery(state, level))

TakeoffReach == Continue("takeoff_reach", takeoff_reach(state, call.arg[1]))
LandEnter == Continue("land", land(state))
LandTouchdown == Continue("land_touchdown", land_touchdown(state))
EmergencyStopEnter == Continue("emergency_stop", emergency_stop(state))

---------------------------------------------------------------------------
(* Inputs *)

\* mission ids callers use: those create_mission can have returned
MissionIdInputs == {MissionIdOf(n) : n \in 1 .. MaxMissions}

\* how many missions the coordinator's callers create
MissionBound == IF max_fleet_size = SmallFleet THEN MaxMissions ELSE PairMissions

\* drone_ids lists: every list of at most MaxListLen ids, repeats included
IdLists(ids) == UNION {[1 .. n -> ids] : n \in 0 .. MaxListLen}

\* drone_ids lists of up to three drones, repeats included
RosterLists(ids) == UNION {[1 .. n -> ids] : n \in 0 .. RosterListLen}

\* (lat, lon, alt)
Origin == <<0, 0, 0>>

\* positions 0 m, 8.349 m, 9.325 m, exactly 10 m and 11.132 m from Origin
Positions == {Origin, <<3, 0, 0>>, <<2, 2, 5>>, <<0, 0, 10>>, <<0, 4, 0>>}

\* (min_lat, max_lat, min_lon, max_lon)
Area == <<0, 4, 0, 4>>

StatusInputs == {"ready", "busy"}

\* battery levels reported: out of range, critical, at and around the thresholds
BatteryInputs == {-5, 9, 10, 19, 20, 150}

\* altitudes asked for: around min_altitude and max_altitude
AltitudeInputs == {4, 5, 120, 121}

\* capabilities passed to register_drone
Camera == Some({"camera"})

\* (position, battery_level, status) passed to update_drone_state: nothing, one
\* field, a falsy value (0, ""), every field
TelemetryInputs ==
    {<<None, None, None>>,
     <<Some(<<3, 0, 0>>), None, None>>, <<None, None, Some("busy")>>,
     <<None, Some(0), None>>, <<None, None, Some("")>>,
     <<Some(<<3, 0, 0>>), Some(0), Some("busy")>>}

\* battery levels reported to the coordinator with a heartbeat: none, below 0,
\* above 100
HeartbeatBattery == {None, Some(-5), Some(150)}

\* positions of the drones the queries are asked about: 8.349 m, 11.132 m and
\* 13.915 m apart
QueryPositions == {Origin, <<3, 0, 0>>, <<0, 4, 0>>}

\* seconds between two readings of the clock: their sums reach heartbeat_timeout
\* exactly (15 + 15), one second more (15 + 16) and two more (16 + 16)
ElapseInputs == {15, 16}

\* area_bounds passed to optimize_coverage: spans that N + 1 divides and does not
\* divide, negative bounds, an empty span, min_lat above max_lat
AreaInputs == {Area, <<0, 3, -2, 1>>, <<-3, 2, 1, 2>>, <<5, 5, 0, 0>>, <<4, 0, 0, 4>>}

\* drone_ids lists passed to optimize_coverage, repeats included
CoverageLists(ids) == UNION {[1 .. n -> ids] : n \in 0 .. MaxCoverage}

\* (lat, lon) navigated to
TargetInputs == {<<0, 0>>, <<1, 2>>}

---------------------------------------------------------------------------
(* Specifications *)

CoordInit(fleet) ==
    /\ drones = <<>>
    /\ missions = <<>>
    /\ mission_counter = 0
    /\ max_fleet_size = fleet
    /\ now = 0
    /\ last = [op |-> "init", args |-> <<>>, ok |-> TRUE, val |-> None]

UavInit ==
    /\ state = UAVState
    /\ pc = "idle"
    /\ call = [op |-> "init", arg |-> <<>>, pre |-> UAVState]
    /\ ret = "None"
    /\ trail = <<>>

\* no thread has called the coordinator yet
ThreadInit ==
    /\ mut = MutIdle
    /\ qry = [pc |-> "idle", active_missions |-> 0, idle_drones |-> 0,
              legal |-> {}, during |-> {}, result |-> None]
    /\ thr = [t \in Callers |-> CallerIdle]

\* the coordinator that runs missions
Init == CoordInit(SmallFleet) /\ UavInit /\ ThreadInit

\* the coordinator that tracks positions
InitFleet == CoordInit(LargeFleet) /\ UavInit /\ ThreadInit

\* the coordinator of three drones
InitRoster == CoordInit(RosterFleet) /\ UavInit /\ ThreadInit

Ids == DroneIdInputs(max_fleet_size)

Next ==
    \/ \E id \in Ids : RegisterDrone(id, Origin, None)
    \/ \E id \in Ids : UnregisterDrone(id)
    \/ \E id \in Ids, s \in StatusInputs : UpdateDroneState(id, None, None, Some(s))
    \/ mission_counter < MissionBound /\ \E ty \in MissionTypes : CreateMission(ty, Area, 1)
    \/ \E m \in MissionIdInputs, ids \in IdLists(Ids) : AssignMission(m, ids)
    \/ \E m \in MissionIdInputs : AutoAssignMission(m)
    \/ \E m \in MissionIdInputs : CompleteMission(m)

NextFleet ==
    \/ \E id \in Ids, p \in Positions : RegisterDrone(id, p, None)
    \/ \E id \in Ids : UnregisterDrone(id)
    \/ \E id \in Ids, p \in Positions : UpdateDroneState(id, Some(p), None, None)
    \/ CheckCollisionRisk

NextTelemetry ==
    \/ \E id \in Ids : RegisterDrone(id, Origin, Camera)
    \/ \E id \in Ids, u \in TelemetryInputs : UpdateDroneState(id, u[1], u[2], u[3])
    \/ mission_counter < PairMissions /\ CreateMission("survey", Area, 1)
    \/ AutoAssignMission(MissionIdOf(1))
    \/ Tick

NextThreads ==
    \/ \E id \in Ids : ThreadRegisterDrone(id, Origin)
    \/ mission_counter < PairMissions /\ ThreadCreateMission("survey", Area, 1)
    \/ \E m \in MissionIdInputs, ids \in IdLists(Ids) : ThreadAssignMission(m, ids)
    \/ AssignDrones
    \/ AssignStatus
    \/ AssignTask
    \/ \E m \in MissionIdInputs : ThreadCompleteMission(m)
    \/ CompleteStatus
    \/ CompleteTask
    \/ GetStatistics
    \/ StatsDrones
    \/ StatsReturn

NextHeartbeat ==
    \/ \E id \in Ids : RegisterDrone(id, Origin, None)
    \/ \E id \in Ids : UnregisterDrone(id)
    \/ \E id \in Ids, b \in HeartbeatBattery : UpdateDroneState(id, None, b, None)
    \/ \E d \in ElapseInputs : Elapse(d)
    \/ CheckInactiveDrones

NextCoverage ==
    \E a \in AreaInputs, ids \in CoverageLists(Ids) : OptimizeCoverage(a, ids)

\* the queries, asked of a fleet with positions, a mission and a clock
NextQueries ==
    \/ \E id \in 1 .. max_fleet_size, p \in QueryPositions : RegisterDrone(id, p, Camera)
    \/ mission_counter < PairMissions /\ CreateMission("survey", Area, 1)
    \/ \E ids \in IdLists(1 .. max_fleet_size) : AssignMission(MissionIdOf(1), ids)
    \/ CompleteMission(MissionIdOf(1))
    \/ Elapse(heartbeat_timeout + 1)
    \/ CheckCollisionRisk
    \/ \E ids \in IdLists(1 .. max_fleet_size) : OptimizeCoverage(Area, ids)
    \/ CheckInactiveDrones
    \/ \E id \in Ids : GetDroneInfo(id)
    \/ GetFleetInfo
    \/ QueryStatistics

\* threads that register drones and create missions at the same time
NextRace ==
    \E t \in Callers :
        \/ \E id \in Ids : RaceRegisterDrone(t, id, Origin)
        \/ RaceRegisterCapacity(t)
        \/ RaceRegisterInsert(t)
        \/ CreateCalls < MaxRaceMissions /\ RaceCreateMission(t, "survey", Area, 1)
        \/ RaceCreateStore(t)
        \/ RaceCreateFormat(t)
        \/ RaceCreateInsert(t)

\* the blocks a running method still has to run
UavStep ==
    \/ TakeoffReach
    \/ LandEnter
    \/ LandTouchdown
    \/ EmergencyStopEnter

NextUAV ==
    \/ Arm
    \/ Disarm
    \/ \E a \in AltitudeInputs : Takeoff(a)
    \/ Land
    \/ \E m \in FlightMode : SetFlightMode(m)
    \/ \E t \in TargetInputs, a \in AltitudeInputs : NavigateTo(t[1], t[2], a)
    \/ ReturnToLaunch
    \/ EmergencyStop
    \/ \E b \in BatteryInputs : UpdateBattery(b)
    \/ UavStep

\* one mission over three drones: assignment, unregistration, completion
NextRoster ==
    \/ \E id \in 1 .. max_fleet_size : RegisterDrone(id, Origin, Camera)
    \/ \E id \in 1 .. max_fleet_size : UnregisterDrone(id)
    \/ mission_counter < PairMissions /\ CreateMission("survey", Area, 1)
    \/ \E ids \in RosterLists(1 .. max_fleet_size) : AssignMission(MissionIdOf(1), ids)
    \/ CompleteMission(MissionIdOf(1))

Spec == Init /\ [][Next]_vars

\* every mutating method, on a fleet of LargeFleet with PairMissions missions
SpecPair == InitFleet /\ [][Next]_vars

SpecFleet == InitFleet /\ [][NextFleet]_vars

\* the coordinator that receives telemetry while the clock advances
SpecTelemetry == InitFleet /\ [][NextTelemetry]_vars

\* a thread that mutates and a thread that queries, without a lock
SpecThreads == Init /\ [][NextThreads]_vars

\* the coordinator that watches heartbeats
SpecHeartbeat == InitFleet /\ [][NextHeartbeat]_vars

\* optimize_coverage on every area and list of the inputs
SpecCoverage == InitFleet /\ [][NextCoverage]_vars

SpecRoster == InitRoster /\ [][NextRoster]_vars

SpecQueries == InitFleet /\ [][NextQueries]_vars

SpecRace == Init /\ [][NextRace]_vars

SpecUAV == Init /\ [][NextUAV]_vars

\* a method that was called runs to its return: the controller is sequential code
SpecUAVFair == SpecUAV /\ WF_vars(UavStep)

---------------------------------------------------------------------------
(* Properties *)

\* the missions, by index, that are active and hold drone_id
ActiveHolders(drone_id) ==
    {m \in 1 .. Len(missions) :
        /\ missions[m].status = "active"
        /\ In(drone_id, missions[m].assigned_drones)}

CoordUnchanged == UNCHANGED <<drones, missions, mission_counter>>

\* C1: every registered drone has a task other than idle exactly if it is in
\* assigned_drones of some active mission, and its task is then that mission's type.
C1_TaskMatchesAssignment ==
    \A i \in 1 .. Len(drones) :
        /\ drones[i].task # IDLE <=> ActiveHolders(drones[i].drone_id) # {}
        /\ \A m \in ActiveHolders(drones[i].drone_id) :
              drones[i].task = missions[m].mission_type

\* C2: the fleet never holds more than max_fleet_size drones, and a register_drone
\* call made while the fleet holds max_fleet_size drones fails.
C2_FleetWithinMax ==
    /\ [](Len(drones) <= max_fleet_size)
    /\ [][(last'.op = "register_drone" /\ Len(drones) >= max_fleet_size)
            => ~last'.ok]_vars

\* C2 witness: a new id was refused by a full fleet
C2_Witness ==
    /\ last.op = "register_drone"
    /\ ~last.ok
    /\ last.args[1] \notin DroneKeys(drones)
    /\ Len(drones) = max_fleet_size

\* the arguments of an assign_mission call that must make it fail
BadAssignArgs(mission_id, drone_ids) ==
    \/ mission_id \notin MissionKeys(missions)
    \/ \E k \in 1 .. Len(drone_ids) : drone_ids[k] \notin DroneKeys(drones)

\* C3: an assign_mission call with an unknown mission or an unregistered drone id
\* fails and changes no drone and no mission.
C3_AssignAtomic ==
    [][(last'.op = "assign_mission" /\ BadAssignArgs(last'.args[1], last'.args[2]))
        => (~last'.ok /\ CoordUnchanged)]_vars

\* C3 witness: assign_mission on a pending mission failed on a list whose first id
\* is registered and whose second is not
C3_Witness ==
    /\ last.op = "assign_mission"
    /\ ~last.ok
    /\ last.args[1] \in MissionKeys(missions)
    /\ missions[MissionIndex(missions, last.args[1])].status = "pending"
    /\ Len(last.args[2]) = 2
    /\ last.args[2][1] \in DroneKeys(drones)
    /\ last.args[2][2] \notin DroneKeys(drones)

\* C4: complete_mission on a known mission succeeds, leaves the mission completed
\* and every drone of its assigned_drones that is registered idle; the ids that
\* are not registered are skipped.
C4_CompleteFreesDrones ==
    [][(last'.op = "complete_mission" /\ last'.args[1] \in MissionKeys(missions))
        => LET m == MissionIndex(missions, last'.args[1])
           IN  /\ last'.ok
               /\ missions'[m].status = "completed"
               /\ \A i \in 1 .. Len(drones') :
                     In(drones'[i].drone_id, missions[m].assigned_drones)
                        => drones'[i].task = IDLE]_vars

\* C4 witness: a mission was completed whose assigned_drones hold an id that is
\* no longer registered
C4_Witness ==
    /\ last.op = "complete_mission"
    /\ last.ok
    /\ \E k \in 1 .. Len(missions[MissionIndex(missions, last.args[1])].assigned_drones) :
          missions[MissionIndex(missions, last.args[1])].assigned_drones[k]
             \notin DroneKeys(drones)

\* an update_battery call has returned that found the vehicle flying or hovering
\* and stored a level below emergency_land_battery
CriticalInFlight ==
    /\ pc = "idle"
    /\ call.op = "update_battery"
    /\ call.pre.flight_status \in {FLYING, HOVERING}
    /\ state.battery_level < emergency_land_battery

\* C5, as claimed: update_battery below the emergency threshold while airborne takes
\* flight_status through emergency to grounded and ends with is_armed = FALSE.
C5_Original ==
    CriticalInFlight =>
        /\ trail = <<EMERGENCY, LANDING, GROUNDED>>
        /\ state.flight_status = GROUNDED
        /\ ~state.is_armed

\* C5, as amended: update_battery below the emergency threshold while airborne takes
\* flight_status through emergency to grounded and leaves is_armed as it was, TRUE.
C5_EmergencyLandsStillArmed ==
    CriticalInFlight =>
        /\ trail = <<EMERGENCY, LANDING, GROUNDED>>
        /\ state.flight_status = GROUNDED
        /\ state.is_armed
        /\ call.pre.is_armed

\* C5 witness
C5_Witness == CriticalInFlight /\ state.flight_status = GROUNDED

\* C6: between calls, is_armed = FALSE implies flight_mode = idle.
C6_DisarmedIsIdle ==
    (pc = "idle" /\ ~state.is_armed) => state.flight_mode = FM_IDLE

\* C6 witness: disarm has reset a flight mode that was not idle
C6_Witness ==
    /\ pc = "idle"
    /\ call.op = "disarm"
    /\ ret = "True"
    /\ call.pre.is_armed
    /\ call.pre.flight_mode # FM_IDLE
    /\ ~state.is_armed

\* C7: flight_status becomes emergency only in emergency_stop, called directly or
\* by update_battery; while it is emergency, flight_mode is return_to_launch; and
\* emergency always leads to grounded.
C7_EmergencyResolves ==
    /\ [][(state'.flight_status = EMERGENCY /\ state.flight_status # EMERGENCY)
            => \/ pc = "idle" /\ call'.op = "emergency_stop"
               \/ pc = "emergency_stop" /\ call'.op = "update_battery"]_vars
    /\ [](state.flight_status = EMERGENCY => state.flight_mode = FM_RTL)
    /\ (state.flight_status = EMERGENCY) ~> (state.flight_status = GROUNDED)

\* C7 witness: the emergency that update_battery has triggered
C7_Witness ==
    /\ state.flight_status = EMERGENCY
    /\ call.op = "update_battery"

\* C8: a coordinator call that returns False leaves the drones, the missions and
\* the mission counter as they were.
C8_FailureChangesNothing ==
    [][~last'.ok => CoordUnchanged]_vars

\* C8 witness: auto_assign_mission found no available drone in a fleet that is
\* not empty, for a mission that exists
C8_Witness ==
    /\ last.op = "auto_assign_mission"
    /\ ~last.ok
    /\ last.args[1] \in MissionKeys(missions)
    /\ Len(drones) > 0

\* C9: after a successful unregister_drone(id), id is in no mission's
\* assigned_drones; every id in a mission's assigned_drones is a registered drone.
C9_AssignedAreRegistered ==
    /\ (last.op = "unregister_drone" /\ last.ok)
          => \A m \in 1 .. Len(missions) : ~In(last.args[1], missions[m].assigned_drones)
    /\ \A m \in 1 .. Len(missions) :
          \A k \in 1 .. Len(missions[m].assigned_drones) :
             missions[m].assigned_drones[k] \in DroneKeys(drones)

\* the square of the separation of the i-th and the j-th drone, in mm^2
Separation2(i, j) ==
    LET dx == (drones[i].position[1] - drones[j].position[1]) * MmPerUnit
        dy == (drones[i].position[2] - drones[j].position[2]) * MmPerUnit
        dz == (drones[i].position[3] - drones[j].position[3]) * MmPerMetre
    IN  dx * dx + dy * dy + dz * dz

\* the unordered pairs of registered drones closer than min_drone_separation
ClosePairs ==
    {{drones[i].drone_id, drones[j].drone_id} : <<i, j>> \in
        {p \in (1 .. Len(drones)) \X (1 .. Len(drones)) :
            /\ p[1] < p[2]
            /\ Separation2(p[1], p[2]) < min_drone_separation * min_drone_separation}}

\* C10: check_collision_risk returns exactly the unordered pairs of registered drones
\* whose separation is below min_drone_separation, two drones at one position included.
C10_RisksAreClosePairs ==
    last.op = "check_collision_risk"
        => {{last.val[k][1], last.val[k][2]} : k \in 1 .. Len(last.val)} = ClosePairs

\* C11: calculate_separation gives the same distance for (A, B) and for (B, A); in
\* the result of check_collision_risk no unordered pair appears twice, the drone
\* registered earlier comes first and no drone is paired with itself.
C11_SeparationSymmetric ==
    /\ \A a \in DroneKeys(drones), b \in DroneKeys(drones) :
          calculate_separation(Self, a, b) = calculate_separation(Self, b, a)
    /\ last.op = "check_collision_risk" =>
          /\ \A k \in 1 .. Len(last.val) :
                /\ DroneIndex(drones, last.val[k][1]) < DroneIndex(drones, last.val[k][2])
                /\ last.val[k][1] # last.val[k][2]
                /\ Some(last.val[k][3])
                      = calculate_separation(Self, last.val[k][2], last.val[k][1])
          /\ \A k \in 1 .. Len(last.val), l \in 1 .. Len(last.val) :
                k # l => {last.val[k][1], last.val[k][2]} # {last.val[l][1], last.val[l][2]}

\* C11 witness: a risk was reported for two drones that differ in latitude,
\* longitude and altitude, the one registered first having the larger id
C11_Witness ==
    /\ last.op = "check_collision_risk"
    /\ Len(last.val) = 1
    /\ last.val[1][1] > last.val[1][2]
    /\ \A c \in 1 .. 3 :
          drones[DroneIndex(drones, last.val[1][1])].position[c]
             # drones[DroneIndex(drones, last.val[1][2])].position[c]

\* the registered drones, by index, that are ready and idle
ReadyAndIdle == {i \in 1 .. Len(drones) : drones[i].status = "ready" /\ drones[i].task = IDLE}

\* C12: auto_assign_mission on a known mission assigns exactly one drone, the first
\* in registration order that is ready and idle, and changes no other drone; when
\* no drone is ready and idle it fails and changes nothing.
C12_AutoAssignsFirstAvailable ==
    [][(last'.op = "auto_assign_mission" /\ last'.args[1] \in MissionKeys(missions))
        => IF ReadyAndIdle = {}
           THEN ~last'.ok /\ CoordUnchanged
           ELSE LET first == CHOOSE i \in ReadyAndIdle : \A j \in ReadyAndIdle : i <= j
                    m == MissionIndex(missions, last'.args[1])
                IN  /\ last'.ok
                    /\ missions'[m].assigned_drones = <<drones[first].drone_id>>
                    /\ Len(drones') = Len(drones)
                    /\ drones'[first] = [drones[first] EXCEPT !.task = missions[m].mission_type]
                    /\ \A i \in 1 .. Len(drones) : i # first => drones'[i] = drones[i]]_vars

\* C12 witness: auto_assign_mission passed over the drone registered first, which
\* is not ready, and assigned the second
C12_Witness ==
    /\ last.op = "auto_assign_mission"
    /\ last.ok
    /\ Len(drones) = 2
    /\ drones[1].status # "ready"
    /\ drones[1].task = IDLE
    /\ missions[MissionIndex(missions, last.args[1])].assigned_drones = <<drones[2].drone_id>>

\* C13: register_drone with an id that is registered fails and leaves that drone's
\* record and every other drone as they were; a registration that succeeds appends
\* the drone with battery_level 100, task idle and status "ready".
C13_DuplicateRegistration ==
    [][last'.op = "register_drone"
        => IF last'.args[1] \in DroneKeys(drones)
           THEN ~last'.ok /\ drones' = drones
           ELSE last'.ok =>
                  /\ Len(drones') = Len(drones) + 1
                  /\ \A i \in 1 .. Len(drones) : drones'[i] = drones[i]
                  /\ drones'[Len(drones')].drone_id = last'.args[1]
                  /\ drones'[Len(drones')].position = last'.args[2]
                  /\ drones'[Len(drones')].battery_level = 100
                  /\ drones'[Len(drones')].task = IDLE
                  /\ drones'[Len(drones')].status = "ready"]_vars

\* C13 witness: a registration was refused for the id of a drone whose record no
\* longer looks like a new one, in a fleet of two
C13_Witness ==
    /\ last.op = "register_drone"
    /\ ~last.ok
    /\ Len(drones) = 2
    /\ last.args[1] \in DroneKeys(drones)
    /\ LET d == drones[DroneIndex(drones, last.args[1])]
       IN  /\ d.position # last.args[2]
           /\ d.battery_level # 100
           /\ d.status # "ready"
           /\ d.task # IDLE
           /\ d.last_update < now

\* the number a mission id shows: its digits read as a decimal numeral
RECURSIVE NumberOf(_)
NumberOf(d) == IF d = <<>> THEN 0 ELSE 10 * NumberOf(SubSeq(d, 1, Len(d) - 1)) + d[Len(d)]

\* C14: create_mission succeeds and adds a pending mission without drones whose id
\* is numbered one more than the mission created before it, 1 for the first; the
\* mission ids are distinct, no mission is ever removed and there are
\* mission_counter missions.
C14_MissionsNumbered ==
    /\ [][last'.op = "create_mission"
            => /\ last'.ok
               /\ Len(last'.val) = 4
               /\ NumberOf(last'.val) =
                     IF missions = <<>> THEN 1
                     ELSE NumberOf(missions[Len(missions)].mission_id) + 1
               /\ Len(missions') = Len(missions) + 1
               /\ missions'[Len(missions')].mission_id = last'.val
               /\ missions'[Len(missions')].status = "pending"
               /\ missions'[Len(missions')].assigned_drones = <<>>]_vars
    /\ [][\A m \in 1 .. Len(missions) :
            /\ m <= Len(missions')
            /\ missions'[m].mission_id = missions[m].mission_id]_vars
    /\ [](\A m \in 1 .. Len(missions), n \in 1 .. Len(missions) :
            m # n => missions[m].mission_id # missions[n].mission_id)
    /\ [](Len(missions) = mission_counter)

\* C14 witness: a second mission was created after the first was assigned and
\* completed
C14_Witness ==
    /\ last.op = "create_mission"
    /\ Len(missions) = 2
    /\ missions[1].status = "completed"
    /\ missions[1].assigned_drones # <<>>
    /\ NumberOf(missions[2].mission_id) = 2

\* C16: arm fails and changes nothing when battery_level is below
\* safe_battery_threshold, armed or not; otherwise it succeeds and ends armed,
\* with every other field, and an armed vehicle's whole state, as before.
C16_ArmNeedsBattery ==
    (pc = "idle" /\ call.op = "arm")
        => IF call.pre.battery_level < safe_battery_threshold
           THEN ret = "False" /\ state = call.pre
           ELSE /\ ret = "True"
                /\ state.is_armed
                /\ state = [call.pre EXCEPT !.is_armed = TRUE]
                /\ call.pre.is_armed => state = call.pre

\* C16 witness: arm was refused on a vehicle that is armed and airborne, its
\* battery one below the threshold
C16_Witness ==
    /\ pc = "idle"
    /\ call.op = "arm"
    /\ ret = "False"
    /\ call.pre.is_armed
    /\ call.pre.flight_status = HOVERING
    /\ call.pre.battery_level = safe_battery_threshold - 1

\* C17: takeoff fails and changes nothing when the vehicle is not armed or
\* target_altitude is outside [min_altitude, max_altitude]; a takeoff that succeeds
\* starts grounded, passes taking_off, ends hovering at target_altitude and leaves
\* latitude and longitude as they were.
C17_TakeoffFromGround ==
    (pc = "idle" /\ call.op = "takeoff")
        => IF \/ ~call.pre.is_armed
              \/ call.arg[1] < min_altitude
              \/ call.arg[1] > max_altitude
           THEN ret = "False" /\ state = call.pre
           ELSE /\ ret = "True"
                /\ call.pre.flight_status = GROUNDED
                /\ trail = <<TAKING_OFF, HOVERING>>
                /\ state.flight_status = HOVERING
                /\ state.position = <<call.pre.position[1], call.pre.position[2], call.arg[1]>>

\* C18: disarm fails and changes nothing unless flight_status is grounded or
\* landing; when it succeeds the vehicle is disarmed, flight_mode is idle and
\* flight_status, position and battery_level are as before.
C18_DisarmOnGround ==
    (pc = "idle" /\ call.op = "disarm")
        => IF call.pre.flight_status \in {GROUNDED, LANDING}
           THEN /\ ret = "True"
                /\ ~state.is_armed
                /\ state.flight_mode = FM_IDLE
                /\ state.flight_status = call.pre.flight_status
                /\ state.position = call.pre.position
                /\ state.battery_level = call.pre.battery_level
           ELSE ret = "False" /\ state = call.pre

\* C18 witness: disarm was refused on an armed vehicle in flight
C18_Witness ==
    /\ pc = "idle"
    /\ call.op = "disarm"
    /\ ret = "False"
    /\ call.pre.is_armed
    /\ call.pre.flight_status = FLYING
    /\ state.is_armed

\* C19: navigate_to fails and changes nothing unless flight_status is flying or
\* hovering and alt is within [min_altitude, max_altitude]; when it succeeds the
\* position is (lat, lon, alt), flight_status is flying and is_armed, flight_mode
\* and battery_level are as before.
C19_NavigateInFlight ==
    (pc = "idle" /\ call.op = "navigate_to")
        => IF /\ call.pre.flight_status \in {FLYING, HOVERING}
              /\ call.arg[3] >= min_altitude
              /\ call.arg[3] <= max_altitude
           THEN /\ ret = "True"
                /\ state.position = call.arg
                /\ state.flight_status = FLYING
                /\ state.is_armed = call.pre.is_armed
                /\ state.flight_mode = call.pre.flight_mode
                /\ state.battery_level = call.pre.battery_level
           ELSE ret = "False" /\ state = call.pre

\* C19 witness: a hovering vehicle was refused an altitude one above
\* max_altitude
C19_Witness ==
    /\ pc = "idle"
    /\ call.op = "navigate_to"
    /\ ret = "False"
    /\ call.pre.flight_status = HOVERING
    /\ call.arg[3] = max_altitude + 1

\* C15: a get_statistics call that runs while another thread runs assign_mission
\* or complete_mission reports the drones and missions as they were before or
\* after a mutating call, never a state in which a call is half applied.
C15_QueriesSeeSnapshots ==
    (/\ qry.pc = "idle"
     /\ qry.result # None
     /\ qry.during \subseteq {"assign_mission", "complete_mission"})
        => qry.result[1] \in qry.legal

\* C20: update_drone_state on a registered id sets each of position, battery_level
\* and status that is provided (battery 0 and the empty status included), keeps
\* each that is not, never changes task or capabilities, changes no other drone
\* and no mission, and sets last_update to the current time; on an unknown id it
\* fails and changes nothing.
C20_PartialUpdate ==
    [][last'.op = "update_drone_state"
        => LET drone_id == last'.args[1]
               position == last'.args[2]
               battery_level == last'.args[3]
               status == last'.args[4]
           IN  IF drone_id \notin DroneKeys(drones)
               THEN ~last'.ok /\ CoordUnchanged
               ELSE LET i == DroneIndex(drones, drone_id)
                    IN  /\ last'.ok
                        /\ Len(drones') = Len(drones)
                        /\ drones'[i].drone_id = drone_id
                        /\ drones'[i].position =
                              IF position = None THEN drones[i].position ELSE position[1]
                        /\ drones'[i].battery_level =
                              IF battery_level = None THEN drones[i].battery_level
                              ELSE battery_level[1]
                        /\ drones'[i].status =
                              IF status = None THEN drones[i].status ELSE status[1]
                        /\ drones'[i].task = drones[i].task
                        /\ drones'[i].capabilities = drones[i].capabilities
                        /\ drones'[i].last_update = now
                        /\ \A j \in 1 .. Len(drones) : j # i => drones'[j] = drones[j]
                        /\ missions' = missions
                        /\ mission_counter' = mission_counter]_vars

\* C21: check_inactive_drones returns exactly the ids of the registered drones
\* whose last_update is more than heartbeat_timeout before the current time, each
\* once, and changes no drone and no mission.
C21_InactiveAreSilent ==
    [][last'.op = "check_inactive_drones"
        => /\ CoordUnchanged
           /\ \A i \in 1 .. Len(drones) :
                 In(drones[i].drone_id, last'.val)
                    <=> now - drones[i].last_update > heartbeat_timeout
           /\ \A k \in 1 .. Len(last'.val) : last'.val[k] \in DroneKeys(drones)
           /\ Cardinality({last'.val[k] : k \in 1 .. Len(last'.val)}) = Len(last'.val)]_vars

\* C21 witness: of two drones, the one silent for exactly heartbeat_timeout is not
\* listed and the one silent for longer is
C21_Witness ==
    /\ last.op = "check_inactive_drones"
    /\ Len(drones) = 2
    /\ Len(last.val) = 1
    /\ \E i \in 1 .. 2 :
          /\ now - drones[i].last_update = heartbeat_timeout
          /\ ~In(drones[i].drone_id, last.val)
    /\ \E i \in 1 .. 2 :
          /\ now - drones[i].last_update > heartbeat_timeout
          /\ In(drones[i].drone_id, last.val)

\* the drone_ids of the last optimize_coverage call are distinct
DistinctIds ==
    \A i \in 1 .. Len(last.args[2]), j \in 1 .. Len(last.args[2]) :
        i # j => last.args[2][i] # last.args[2][j]

\* C22: optimize_coverage on N >= 1 distinct ids returns one target per id, the
\* i-th id at latitude min_lat + i * (max_lat - min_lat) / (N + 1) and longitude
\* (min_lon + max_lon) / 2; for min_lat < max_lat the latitudes increase strictly
\* in input order and lie strictly between min_lat and max_lat; on an empty list
\* it returns an empty mapping.
C22_CoverageTargets ==
    last.op = "optimize_coverage"
        => LET area == last.args[1]
               ids == last.args[2]
               N == Len(ids)
           IN  /\ N = 0 => last.val = <<>>
               /\ (N >= 1 /\ DistinctIds) =>
                     /\ Len(last.val) = N
                     /\ \A i \in 1 .. N :
                           /\ last.val[i].drone_id = ids[i]
                           /\ FracEq(last.val[i].lat,
                                     Frac(area[1] * (N + 1) + i * (area[2] - area[1]), N + 1))
                           /\ FracEq(last.val[i].lon, Frac(area[3] + area[4], 2))
                     /\ area[1] < area[2] =>
                           /\ \A i \in 1 .. N :
                                 /\ FracLess(Frac(area[1], 1), last.val[i].lat)
                                 /\ FracLess(last.val[i].lat, Frac(area[2], 1))
                           /\ \A i \in 1 .. N - 1 :
                                 FracLess(last.val[i].lat, last.val[i + 1].lat)

\* C22 witness: three distinct ids on a latitude span that 4 does not divide
C22_Witness ==
    /\ last.op = "optimize_coverage"
    /\ Len(last.args[2]) = 3
    /\ DistinctIds
    /\ last.args[1][1] < last.args[1][2]
    /\ (last.args[1][2] - last.args[1][1]) % 4 # 0
    /\ Len(last.val) = 3

\* C23: every mission's status is pending, active or completed, never failed, and
\* a mission that has left pending never returns to pending.
C23_StatusNeverFailedNorRequeued ==
    /\ [](\A m \in 1 .. Len(missions) :
            missions[m].status \in {"pending", "active", "completed"})
    /\ [][\A m \in 1 .. Len(missions) :
            missions[m].status # "pending"
               => /\ m <= Len(missions')
                  /\ missions'[m].mission_id = missions[m].mission_id
                  /\ missions'[m].status # "pending"]_vars

\* C23 witness: an active mission lost its only drone to unregister_drone, beside
\* a completed mission
C23_Witness ==
    /\ last.op = "unregister_drone"
    /\ last.ok
    /\ \E m \in 1 .. Len(missions) :
          missions[m].status = "active" /\ missions[m].assigned_drones = <<>>
    /\ \E m \in 1 .. Len(missions) : missions[m].status = "completed"

\* C24: no drone is in assigned_drones of two different active missions at the
\* same time.
C24_OneActiveMissionPerDrone ==
    \A m \in 1 .. Len(missions), n \in 1 .. Len(missions) :
        (m # n /\ missions[m].status = "active" /\ missions[n].status = "active")
            => \A k \in 1 .. Len(missions[m].assigned_drones) :
                  ~In(missions[m].assigned_drones[k], missions[n].assigned_drones)

\* C25: every registered drone's battery_level lies between 0 and 100.
C25_BatteryInRange ==
    \A i \in 1 .. Len(drones) :
        drones[i].battery_level >= 0 /\ drones[i].battery_level <= 100

\* the entries of a list other than one id, in the list's order
Others(list, drone_id) == SelectSeq(list, LAMBDA x : x # drone_id)

\* C26: a successful unregister_drone(id) changes no mission's status, type or
\* priority and removes no mission; a mission's assigned_drones loses at most one
\* entry, an entry of that id, and keeps the other drones in their order; an active
\* mission assigned to that drone alone stays active with an empty assigned_drones.
C26_UnregisterKeepsMissions ==
    [][(last'.op = "unregister_drone" /\ last'.ok)
          => /\ Len(missions') = Len(missions)
             /\ \A m \in 1 .. Len(missions) :
                   LET id == last'.args[1]
                       before == missions[m]
                       after == missions'[m]
                   IN  /\ after.mission_id = before.mission_id
                       /\ after.status = before.status
                       /\ after.mission_type = before.mission_type
                       /\ after.priority = before.priority
                       /\ Others(after.assigned_drones, id) = Others(before.assigned_drones, id)
                       /\ \/ after.assigned_drones = before.assigned_drones
                          \/ \E j \in 1 .. Len(before.assigned_drones) :
                                /\ before.assigned_drones[j] = id
                                /\ after.assigned_drones
                                     = SubSeq(before.assigned_drones, 1, j - 1)
                                       \o SubSeq(before.assigned_drones, j + 1,
                                                 Len(before.assigned_drones))
                       /\ (before.status = "active" /\ before.assigned_drones = <<id>>)
                             => (after.status = "active" /\ after.assigned_drones = <<>>)]_vars

\* C26 witness: unregister_drone took the middle one of three drones out of an
\* active mission, which is still active and holds the other two in their order.
C26_Witness ==
    /\ last.op = "unregister_drone"
    /\ last.ok
    /\ last.args = <<2>>
    /\ Len(missions) = 1
    /\ missions[1].status = "active"
    /\ missions[1].assigned_drones = <<3, 1>>
    /\ DroneKeys(drones) = {1, 3}

\* the state a landing leaves: on the ground, flight mode idle, altitude 0, every
\* other field as in st
Landed(st) ==
    [st EXCEPT !.flight_status = GROUNDED, !.flight_mode = FM_IDLE,
               !.position = <<st.position[1], st.position[2], 0>>]

\* C27: land and return_to_launch return True; on a grounded vehicle they change
\* no field; otherwise they end grounded, flight mode idle, altitude 0, with
\* latitude, longitude, is_armed and battery_level as before; land passes through
\* landing, and return_to_launch sets flight_mode to return_to_launch, changing
\* nothing else, before it lands.
C27_LandingsSucceed ==
    /\ (pc = "idle" /\ call.op \in {"land", "return_to_launch"})
          => /\ ret = "True"
             /\ IF call.pre.flight_status = GROUNDED
                THEN state = call.pre /\ trail = <<>>
                ELSE state = Landed(call.pre) /\ trail = <<LANDING, GROUNDED>>
    /\ (pc = "land_touchdown" /\ call.op = "land")
          => state = [call.pre EXCEPT !.flight_status = LANDING]
    /\ (pc = "land" /\ call.op = "return_to_launch")
          => state = [call.pre EXCEPT !.flight_mode = FM_RTL]
    /\ (pc = "land_touchdown" /\ call.op = "return_to_launch")
          => state = [call.pre EXCEPT !.flight_mode = FM_RTL, !.flight_status = LANDING]

\* C27 witness: return_to_launch has landed an armed vehicle that was flying in
\* mode waypoint away from the origin
C27_Witness ==
    /\ pc = "idle"
    /\ call.op = "return_to_launch"
    /\ ret = "True"
    /\ call.pre.flight_status = FLYING
    /\ call.pre.flight_mode = FM_WAYPOINT
    /\ call.pre.position[1] # 0
    /\ call.pre.position[3] > 0
    /\ state.flight_status = GROUNDED
    /\ state.is_armed

\* C28: emergency_stop, whatever the state it is called in, sets flight_status to
\* emergency and flight_mode to return_to_launch, then lands: it returns True with
\* the vehicle grounded, flight mode idle, altitude 0, and is_armed, battery_level,
\* latitude and longitude as before.
C28_EmergencyStopUnconditional ==
    /\ (call.op = "emergency_stop" /\ pc = "land")
          => state = [call.pre EXCEPT !.flight_status = EMERGENCY, !.flight_mode = FM_RTL]
    /\ (call.op = "emergency_stop" /\ pc = "land_touchdown")
          => state = [call.pre EXCEPT !.flight_status = LANDING, !.flight_mode = FM_RTL]
    /\ (call.op = "emergency_stop" /\ pc = "idle")
          => /\ ret = "True"
             /\ trail = <<EMERGENCY, LANDING, GROUNDED>>
             /\ state = Landed(call.pre)
    /\ call.op = "emergency_stop" => pc \in {"land", "land_touchdown", "idle"}

\* C28 witness: emergency_stop has run on a vehicle that was grounded and not
\* armed, its battery below the arming threshold
C28_Witness ==
    /\ pc = "idle"
    /\ call.op = "emergency_stop"
    /\ ret = "True"
    /\ call.pre.flight_status = GROUNDED
    /\ ~call.pre.is_armed
    /\ call.pre.battery_level < safe_battery_threshold
    /\ trail = <<EMERGENCY, LANDING, GROUNDED>>

\* the level update_battery stores
Clamped(level) == IF level < 0 THEN 0 ELSE IF level > 100 THEN 100 ELSE level

\* C29: battery_level is always within [0, 100]; update_battery stores the level
\* clamped to [0, 100]; it calls emergency_stop exactly when the stored level is
\* below emergency_land_battery and the vehicle is not grounded; in every other
\* case it changes battery_level only.
C29_BatteryClampedAndWatched ==
    /\ [](state.battery_level >= 0 /\ state.battery_level <= 100)
    /\ [][(pc = "idle" /\ call'.op = "update_battery")
            => /\ state'.battery_level = Clamped(call'.arg[1])
               /\ IF /\ Clamped(call'.arg[1]) < emergency_land_battery
                     /\ state.flight_status # GROUNDED
                  THEN /\ pc' = "emergency_stop"
                       /\ state' = [state EXCEPT !.battery_level = Clamped(call'.arg[1])]
                  ELSE /\ pc' = "idle"
                       /\ ret' = "None"
                       /\ state' = [state EXCEPT !.battery_level = Clamped(call'.arg[1])]]_vars
    /\ []((pc = "idle" /\ call.op = "update_battery")
            => IF /\ Clamped(call.arg[1]) < emergency_land_battery
                  /\ call.pre.flight_status # GROUNDED
               THEN trail = <<EMERGENCY, LANDING, GROUNDED>>
               ELSE trail = <<>> /\ state = [call.pre EXCEPT !.battery_level = Clamped(call.arg[1])])

\* C29 witness: update_battery stored a level equal to emergency_land_battery on a
\* flying vehicle, which flies on
C29_Witness ==
    /\ pc = "idle"
    /\ call.op = "update_battery"
    /\ call.arg[1] = emergency_land_battery
    /\ call.pre.flight_status = FLYING
    /\ call.pre.battery_level > emergency_land_battery
    /\ state.battery_level = emergency_land_battery
    /\ state.flight_status = FLYING

\* C30: set_flight_mode fails and changes nothing when the vehicle is not armed and
\* the mode is not idle; otherwise it returns True, sets flight_mode to the mode and
\* changes no other field.
C30_SetFlightModeGuard ==
    (pc = "idle" /\ call.op = "set_flight_mode")
        => IF ~call.pre.is_armed /\ call.arg[1] # FM_IDLE
           THEN ret = "False" /\ state = call.pre
           ELSE /\ ret = "True"
                /\ state = [call.pre EXCEPT !.flight_mode = call.arg[1]]
                /\ trail = <<>>

\* C30 witness: set_flight_mode(LANDING) on an armed, hovering vehicle, which
\* hovers on
C30_Witness ==
    /\ pc = "idle"
    /\ call.op = "set_flight_mode"
    /\ call.arg[1] = FM_LANDING
    /\ ret = "True"
    /\ call.pre.is_armed
    /\ call.pre.flight_status = HOVERING
    /\ state.flight_status = HOVERING
    /\ state.flight_mode = FM_LANDING

\* the read-only methods of the coordinator
Queries ==
    {"check_collision_risk", "optimize_coverage", "check_inactive_drones",
     "get_drone_info", "get_fleet_info", "get_statistics"}

\* C31: check_collision_risk, optimize_coverage, check_inactive_drones,
\* get_drone_info, get_fleet_info and get_statistics leave the drones, the missions
\* and the mission counter as they were; get_statistics reports idle_drones +
\* active_drones = total_drones = the number of drones, active_missions = the number
\* of missions whose status is active, and collision_risks = the number of pairs
\* check_collision_risk returns in the same state.
C31_QueriesReadOnly ==
    [][last'.op \in Queries
          => /\ CoordUnchanged
             /\ last'.op = "get_statistics"
                  => LET s == last'.val
                     IN  /\ s.idle_drones + s.active_drones = s.total_drones
                         /\ s.total_drones = Len(drones)
                         /\ s.idle_drones >= 0 /\ s.active_drones >= 0
                         /\ s.total_missions = Len(missions)
                         /\ s.active_missions
                              = Cardinality({m \in 1 .. Len(missions) :
                                               missions[m].status = "active"})
                         /\ s.collision_risks = Len(check_collision_risk(Self).val)]_vars

\* C31 witness: get_statistics has reported one collision risk, one idle drone and
\* one busy drone of the one active mission, one of the drones being inactive
C31_Witness ==
    /\ last.op = "get_statistics"
    /\ last.val.collision_risks = 1
    /\ last.val.active_drones = 1
    /\ last.val.idle_drones = 1
    /\ last.val.active_missions = 1
    /\ Len(missions) = 1
    /\ Len(missions[1].assigned_drones) = 1
    /\ Len(check_inactive_drones(Self, now).val) = 1

\* C32: between calls the vehicle is never flying or hovering with battery_level
\* below emergency_land_battery.
C32_NoFlightOnCriticalBattery ==
    (pc = "idle" /\ state.flight_status \in {FLYING, HOVERING})
        => state.battery_level >= emergency_land_battery

\* C33: a vehicle that is taking off, flying or hovering is armed; between calls a
\* vehicle that is not armed is grounded.
C33_AirborneIsArmed ==
    /\ state.flight_status \in {TAKING_OFF, FLYING, HOVERING} => state.is_armed
    /\ (pc = "idle" /\ ~state.is_armed) => state.flight_status = GROUNDED

\* C33 witness: takeoff to an altitude within the limits was refused to a vehicle
\* that is not armed, which stays grounded
C33_Witness ==
    /\ pc = "idle"
    /\ call.op = "takeoff"
    /\ ret = "False"
    /\ ~call.pre.is_armed
    /\ call.arg[1] >= min_altitude
    /\ call.arg[1] <= max_altitude
    /\ state.flight_status = GROUNDED

\* C34: a grounded vehicle's altitude is 0, and a flying or hovering vehicle's
\* altitude is within [min_altitude, max_altitude].
C34_AltitudeMatchesStatus ==
    /\ state.flight_status = GROUNDED => state.position[3] = 0
    /\ state.flight_status \in {FLYING, HOVERING}
          => (state.position[3] >= min_altitude /\ state.position[3] <= max_altitude)

\* C34 witness: a vehicle that flew at max_altitude has landed
C34_Witness ==
    /\ pc = "idle"
    /\ call.op \in {"land", "return_to_launch", "emergency_stop"}
    /\ call.pre.flight_status = FLYING
    /\ call.pre.position[3] = max_altitude
    /\ state.flight_status = GROUNDED
    /\ state.position[3] = 0

\* C35: between calls flight_status is grounded, hovering or flying; taking_off,
\* landing and emergency are passed only while takeoff, land, return_to_launch or
\* emergency_stop runs (emergency_stop called directly or by update_battery).
C35_TransientStatuses ==
    /\ pc = "idle" => state.flight_status \in {GROUNDED, HOVERING, FLYING}
    /\ state.flight_status = TAKING_OFF => (pc = "takeoff_reach" /\ call.op = "takeoff")
    /\ state.flight_status = LANDING
          => /\ pc = "land_touchdown"
             /\ call.op \in {"land", "return_to_launch", "emergency_stop", "update_battery"}
    /\ state.flight_status = EMERGENCY
          => (pc = "land" /\ call.op \in {"emergency_stop", "update_battery"})

\* C35 witness: a takeoff has returned after passing taking_off
C35_Witness ==
    /\ pc = "idle"
    /\ call.op = "takeoff"
    /\ ret = "True"
    /\ trail = <<TAKING_OFF, HOVERING>>
    /\ state.flight_status = HOVERING

\* C36: a mission's status goes from pending to active to completed only: a
\* completed mission stays completed, no assign_mission or auto_assign_mission on it
\* changes a drone's task, and a mission becomes completed from active only.
C36_MissionLifecycle ==
    [][\A m \in 1 .. Len(missions) :
          /\ missions[m].status = "completed"
                => /\ missions'[m].status = "completed"
                   /\ (/\ last'.op \in {"assign_mission", "auto_assign_mission"}
                       /\ last'.args[1] = missions[m].mission_id)
                         => drones' = drones
          /\ (missions[m].status # "completed" /\ missions'[m].status = "completed")
                => missions[m].status = "active"]_vars

\* C37: complete_mission on a mission that is already completed changes no drone
\* and no mission.
C37_CompleteIdempotent ==
    [][(/\ last'.op = "complete_mission"
        /\ \E m \in 1 .. Len(missions) :
              /\ missions[m].mission_id = last'.args[1]
              /\ missions[m].status = "completed")
          => CoordUnchanged]_vars

\* C38: the fleet never holds more than max_fleet_size drones, also when threads
\* call register_drone at the same time.
C38_CapacityUnderConcurrency ==
    Len(drones) <= max_fleet_size

\* C39: when threads call create_mission at the same time, two calls never return
\* the same mission id, and once the calls have returned there are as many missions
\* as calls.
C39_MissionIdsUniqueUnderConcurrency ==
    /\ \A t \in Callers, u \in Callers :
          (/\ t # u
           /\ thr[t].op = "create_mission" /\ thr[t].pc = "idle"
           /\ thr[u].op = "create_mission" /\ thr[u].pc = "idle")
             => thr[t].ret # thr[u].ret
    /\ (\A t \in Callers : thr[t].pc = "idle") => Len(missions) = Created(MaxCallers)

=============================================================================
